---- MODULE Spec2Model ----
(***************************************************************************)
(* Model of the lead-generation workflow of src/autonomous-agent.js:       *)
(* processHealthcareWebsite and the phase functions it awaits              *)
(* (scrapeHealthcareWebsite, storeLeadInNotion, createElevenLabsAgent,     *)
(* createPersonalizedRepository, deployToRailwayFromRepo,                  *)
(* updateNotionWithResults), with the pure helpers generatePracticeId and  *)
(* extractCompanyFromDomain computed on character sequences.               *)
(***************************************************************************)
EXTENDS Integers, Sequences, FiniteSets, TLC

(***************************************************************************)
(* Bounds of the model.                                                    *)
(***************************************************************************)
\* number of processHealthcareWebsite calls that may be started
MaxRuns == 2
\* Date.now() ranges over 0..MaxClock
MaxClock == 1
\* the workflows that may run at the same time
MaxWorkflows == 3
\* the connections initializeRailwayMCP may attempt
MaxConnects == 3

\* substring(0, 25) in generatePracticeId
PracticeIdMaxLen == 25

\* JavaScript null / undefined in a place that holds an object
Null == [null |-> TRUE]

Workflows == 1..MaxWorkflows

\* now: the clock read by Date.now()
\* run: the frame of the processHealthcareWebsite call in progress (or of the
\*      last one, once it has returned)
\* history: one entry per processHealthcareWebsite call made so far, with the
\*      lead id it was given and the PracticeRecord its scrape produced
\* railwayMCPClient: this.railwayMCPClient
\* batch: the frame of the batch loop in progress (POST /process-urls or
\*      executeAutonomousWorkflow), or of the last one once it has returned
\* chat: the frame of the sendTelegramMessage call in progress, or of the last
\*      one once it has returned
\* req: the frame of the request handler in progress (an Express route or
\*      handleTelegramUpdate), or of the last one once it has answered
\* mcp: the initializeRailwayMCP calls of concurrently running workflows
VARIABLES now, run, history, railwayMCPClient, batch, chat, req, mcp

vars == <<now, run, history, railwayMCPClient, batch, chat, req, mcp>>

(***************************************************************************)
(* Strings are sequences of one-character strings.                         *)
(***************************************************************************)
LowerChars == <<"a","b","c","d","e","f","g","h","i","j","k","l","m",
                "n","o","p","q","r","s","t","u","v","w","x","y","z">>
UpperChars == <<"A","B","C","D","E","F","G","H","I","J","K","L","M",
                "N","O","P","Q","R","S","T","U","V","W","X","Y","Z">>
DigitChars == {"0","1","2","3","4","5","6","7","8","9"}

IndexIn(c, s) == IF \E i \in 1..Len(s) : s[i] = c
                 THEN CHOOSE i \in 1..Len(s) : s[i] = c
                 ELSE 0

\* String.prototype.toUpperCase / toLowerCase on one character
ToUpperChar(c) == IF IndexIn(c, LowerChars) > 0 THEN UpperChars[IndexIn(c, LowerChars)] ELSE c
ToLowerChar(c) == IF IndexIn(c, UpperChars) > 0 THEN LowerChars[IndexIn(c, UpperChars)] ELSE c

\* the character class [a-z0-9]
IsLowerAlnum(c) == IndexIn(c, LowerChars) > 0 \/ c \in DigitChars

StartsWith(s, p) == Len(s) >= Len(p) /\ SubSeq(s, 1, Len(p)) = p
EndsWith(s, p) == Len(s) >= Len(p) /\ SubSeq(s, Len(s) - Len(p) + 1, Len(s)) = p

\* .replace(/^www\./, '')
StripWww(s) == LET www == <<"w","w","w",".">>
               IN IF StartsWith(s, www) THEN SubSeq(s, Len(www) + 1, Len(s)) ELSE s

\* the alternatives of /\.(com|co\.uk|org|net)$/
TldSuffixes == { <<".","c","o","m">>, <<".","c","o",".","u","k">>,
                 <<".","o","r","g">>, <<".","n","e","t">> }

\* .replace(/\.(com|co\.uk|org|net)$/, '')
StripTld(s) == IF \E p \in TldSuffixes : EndsWith(s, p)
               THEN LET p == CHOOSE q \in TldSuffixes : EndsWith(s, q)
                    IN SubSeq(s, 1, Len(s) - Len(p))
               ELSE s

\* .toLowerCase()
ToLowerCase(s) == [i \in 1..Len(s) |-> ToLowerChar(s[i])]

\* .replace(/[^a-z0-9]/g, '-')
DashNonAlnum(s) == [i \in 1..Len(s) |-> IF IsLowerAlnum(s[i]) THEN s[i] ELSE "-"]

\* .replace(/-+/g, '-')
RECURSIVE CollapseDashes(_)
CollapseDashes(s) ==
  IF Len(s) <= 1 THEN s
  ELSE IF s[1] = "-" /\ s[2] = "-" THEN CollapseDashes(Tail(s))
       ELSE <<s[1]>> \o CollapseDashes(Tail(s))

\* .replace(/^-|-$/g, '')
TrimDash(s) ==
  LET a == IF Len(s) > 0 /\ s[1] = "-" THEN Tail(s) ELSE s
  IN IF Len(a) > 0 /\ a[Len(a)] = "-" THEN SubSeq(a, 1, Len(a) - 1) ELSE a

\* .substring(0, n)
Substring0(s, n) == IF Len(s) > n THEN SubSeq(s, 1, n) ELSE s

\* the replace chain of generatePracticeId up to the truncation; every stage
\* works on the value the stage before it produced
PracticeSlug(domain) ==
  CHOOSE slug \in
    { TrimDash(d) : d \in
      { CollapseDashes(c) : c \in
        { DashNonAlnum(b) : b \in
          { ToLowerCase(a) : a \in
            { StripTld(w) : w \in {StripWww(domain)} } } } } } : TRUE

\* generatePracticeId with the run's timestamp appended to the slug
generatePracticeId_timestamped(domain) ==
  Substring0(PracticeSlug(domain), PracticeIdMaxLen) \o <<"-", IF now = 0 THEN "0" ELSE "1">>

generatePracticeId(domain) ==
  CHOOSE id \in { Substring0(slug, PracticeIdMaxLen) : slug \in {PracticeSlug(domain)} } : TRUE

\* .split(/[-.]/)
RECURSIVE SplitDashDot(_)
SplitDashDot(s) ==
  IF \E i \in 1..Len(s) : s[i] \in {"-", "."}
  THEN LET k == CHOOSE i \in 1..Len(s) :
                  /\ s[i] \in {"-", "."}
                  /\ \A j \in 1..(i - 1) : s[j] \notin {"-", "."}
       IN <<SubSeq(s, 1, k - 1)>> \o SplitDashDot(SubSeq(s, k + 1, Len(s)))
  ELSE <<s>>

\* word.charAt(0).toUpperCase() + word.slice(1)
Capitalize(w) == IF Len(w) = 0 THEN w ELSE <<ToUpperChar(w[1])>> \o Tail(w)

\* .join(' ')
RECURSIVE JoinSpace(_)
JoinSpace(ws) ==
  IF Len(ws) = 0 THEN <<>>
  ELSE IF Len(ws) = 1 THEN ws[1]
       ELSE ws[1] \o <<" ">> \o JoinSpace(Tail(ws))

\* the words of the domain: .replace(...).replace(...).split(/[-.]/)
DomainWords(domain) ==
  CHOOSE words \in
    { SplitDashDot(a) : a \in { StripTld(w) : w \in {StripWww(domain)} } } : TRUE

extractCompanyFromDomain(domain) ==
  CHOOSE company \in
    { JoinSpace([i \in 1..Len(words) |-> Capitalize(words[i])])
        \o <<" ","C","l","i","n","i","c">> : words \in {DomainWords(domain)} } : TRUE

(***************************************************************************)
(* Targets.  A Target is the websiteUrl string handed to                   *)
(* processHealthcareWebsite; `parses` and `hostname` are what              *)
(* new URL(url).hostname gives for it (a TypeError when it does not parse).*)
(***************************************************************************)
UrlClinic == [href |-> "https://www.ab.com", parses |-> TRUE,
              hostname |-> <<"w","w","w",".","a","b",".","c","o","m">>]
UrlIPv6 == [href |-> "http://[::]/", parses |-> TRUE,
            hostname |-> <<"[",":",":","]">>]
UrlBad == [href |-> "not a url", parses |-> FALSE, hostname |-> <<>>]

Targets == {UrlClinic, UrlIPv6, UrlBad}

\* outcome of an awaited call: a returned value or a thrown Error
Return(v) == [threw |-> FALSE, value |-> v, error |-> "none"]
Throw(msg) == [threw |-> TRUE, value |-> Null, error |-> msg]

\* this.config.masterAgentId, a non-empty environment value
masterAgentId == [env |-> "ELEVENLABS_AGENT_ID"]

Phases == <<"scrape", "notion", "agent", "repo", "deploy", "update">>

\* the local variable of processHealthcareWebsite that receives a phase's result
ResultField(phase) ==
  CASE phase = "scrape" -> "scrapedData"
    [] phase = "notion" -> "notionPage"
    [] phase = "agent" -> "agentId"
    [] phase = "repo" -> "repository"
    [] phase = "deploy" -> "deployment"
    [] phase = "update" -> "updated"

\* the try block with the voice agent created before the lead is stored
NextPhase_agentBeforeNotion(phase) ==
  CASE phase = "scrape" -> "agent"
    [] phase = "agent" -> "notion"
    [] phase = "notion" -> "repo"
    [] phase = "repo" -> "deploy"
    [] phase = "deploy" -> "update"
    [] phase = "update" -> "return"

\* the statement order of the try block of processHealthcareWebsite
NextPhase(phase) ==
  CASE phase = "scrape" -> "notion"
    [] phase = "notion" -> "agent"
    [] phase = "agent" -> "repo"
    [] phase = "repo" -> "deploy"
    [] phase = "deploy" -> "update"
    [] phase = "update" -> "return"

\* pc: the phase whose call processHealthcareWebsite awaits; awaiting: inside
\* the deploy phase, the helper deployToRailwayFromRepo awaits; started: the
\* phases entered so far; failed: the collaborators whose call failed
IdleRun == [pc |-> "idle", url |-> Null, leadId |-> Null,
            scrapedData |-> Null, notionPage |-> Null, agentId |-> Null,
            repository |-> Null, deployment |-> Null, updated |-> Null,
            awaiting |-> "none", project |-> Null, prodEnv |-> Null, service |-> Null,
            report |-> Null, started |-> <<>>, failed |-> {}]

\* kind: the batch loop that runs, "process-urls" or "workflow"; urls: the
\* list it walks; i: its loop index (from 0); results: its results array;
\* pc: "call" before the call of processHealthcareWebsite, "await" while it is
\* awaited, "sleep" while this.sleep is awaited, "done" once the loop has
\* ended; response: what the caller gets; base: the calls made before the
\* batch; launched, returned, slept: the calls started, the calls that have
\* returned and the sleeps that have elapsed in this batch
IdleBatch == [pc |-> "idle", kind |-> "none", urls |-> <<>>, i |-> 0,
              results |-> <<>>, response |-> "none", base |-> 0,
              launched |-> 0, returned |-> 0, slept |-> 0]

\* pc: "posting" while axios.post is awaited, "done" once sendTelegramMessage
\* has returned; attempts: the posts made by the call; logged: the catch block
\* has logged a failure; threw: the call has thrown to its caller
IdleChat == [pc |-> "idle", attempts |-> 0, logged |-> FALSE, threw |-> FALSE]

\* the frame of a request handler.  route: the Express route or the Telegram
\* branch that serves the request; body: req.body, or the text of the Telegram
\* message; pc: "await" while processHealthcareWebsite is awaited, "loop"
\* while a batch loop runs, "starting" while the send of the starting message
\* is awaited, "search" while findHealthcarePracticesWithEXA is awaited,
\* "typing" and "ai" while the two posts of handleAIChat are awaited,
\* "final-send" while the last send of the handler is awaited, "done" once
\* the handler has ended; response: the HTTP answer; base: the
\* processHealthcareWebsite calls made before the request; sent: the messages
\* handed to sendTelegramMessage, in order; workflows: the calls of
\* executeAutonomousWorkflow made; search: how its EXA search ended; outcome:
\* how the workflow ended; ai: how the OpenRouter call ended; aiResponse: the
\* content it answered
IdleReq == [pc |-> "idle", route |-> "none", body |-> Null, response |-> "none",
            base |-> 0, sent |-> <<>>, workflows |-> 0, search |-> "none",
            outcome |-> "none", ai |-> "none", aiResponse |-> <<>>]

\* one caller of initializeRailwayMCP.  pc: "idle" before the call, "connect"
\* while the imports and client.connect are awaited, "list" while
\* client.listTools is awaited, "done" once the call has returned, "failed"
\* once it has thrown; got: the client it returned
IdleCaller == [pc |-> "idle", got |-> Null]

Init ==
  /\ now = 0
  /\ run = IdleRun
  /\ history = <<>>
  /\ railwayMCPClient = Null
  /\ batch = IdleBatch
  /\ chat = IdleChat
  /\ req = IdleReq
  /\ mcp = [callers |-> [w \in Workflows |-> IdleCaller], attempts |-> 0, connects |-> 0]

(***************************************************************************)
(* Railway MCP helpers.  `client` is this.railwayMCPClient when the helper *)
(* is entered.  `outcome` is what the helper's remote calls do: "ok",      *)
(* "connect-fail" (client.connect or listTools throws inside               *)
(* initializeRailwayMCP) or "tool-fail" (client.callTool throws or answers *)
(* without content).  Every helper also yields the client it leaves behind *)
(* and whether one of its remote calls failed.                             *)
(***************************************************************************)
StepOutcomes == {"ok", "connect-fail", "tool-fail"}

initializeRailwayMCP(client, outcome) ==
  IF client # Null
  THEN [threw |-> FALSE, client |-> client]
  ELSE IF outcome # "connect-fail"
       THEN [threw |-> FALSE, client |-> [connected |-> TRUE]]
       ELSE [threw |-> TRUE, client |-> Null]

railwayMCPCreateProject(client, outcome) ==
  LET init == initializeRailwayMCP(client, outcome)
  IN [threw |-> FALSE, client |-> init.client,
      failed |-> init.threw \/ outcome = "tool-fail",
      value |-> IF ~init.threw /\ outcome # "tool-fail"
                THEN [id |-> "mcp-project"]
                ELSE [id |-> "fallback-project"]]

railwayMCPGetEnvironments(client, outcome) ==
  LET init == initializeRailwayMCP(client, outcome)
  IN [threw |-> FALSE, client |-> init.client,
      failed |-> init.threw \/ outcome = "tool-fail",
      value |-> IF ~init.threw /\ outcome # "tool-fail"
                THEN [id |-> "mcp-env", name |-> "production"]
                ELSE [id |-> "production-env", name |-> "production"]]

railwayMCPCreateService(client, outcome) ==
  LET init == initializeRailwayMCP(client, outcome)
  IN [threw |-> FALSE, client |-> init.client,
      failed |-> init.threw \/ outcome = "tool-fail",
      value |-> IF ~init.threw /\ outcome # "tool-fail"
                THEN [id |-> "mcp-service"]
                ELSE [id |-> "fallback-service"]]

\* railwayMCPSetVariables without the try around each variable_set call
railwayMCPSetVariables_throwsOnToolFailure(client, outcome) ==
  LET init == initializeRailwayMCP(client, outcome)
  IN IF init.threw \/ outcome = "tool-fail"
     THEN [threw |-> TRUE, client |-> init.client, failed |-> TRUE, value |-> Null]
     ELSE [threw |-> FALSE, client |-> init.client, failed |-> FALSE,
           value |-> [success |-> TRUE]]

railwayMCPSetVariables(client, outcome) ==
  LET init == initializeRailwayMCP(client, outcome)
  IN IF init.threw
     THEN [threw |-> TRUE, client |-> init.client, failed |-> TRUE, value |-> Null]
     ELSE [threw |-> FALSE, client |-> init.client, failed |-> outcome = "tool-fail",
           value |-> [success |-> TRUE]]

railwayMCPCreateDomain(client, serviceId, outcome) ==
  LET init == initializeRailwayMCP(client, outcome)
  IN [threw |-> FALSE, client |-> init.client,
      failed |-> init.threw \/ outcome = "tool-fail",
      value |-> IF ~init.threw /\ outcome # "tool-fail"
                THEN [domain |-> "mcp-domain"]
                ELSE [domain |-> "fallback-domain", serviceId |-> serviceId]]

\* the helpers deployToRailwayFromRepo awaits, in order
DeploySteps == <<"project", "environments", "service", "variables", "domain">>

\* the one way deployToRailwayFromRepo deploys: its deploymentMethod
RailwayMethod == "railway-mcp-with-dedicated-repo"

\* the return statement of deployToRailwayFromRepo
deployToRailwayFromRepo(project, service, domain) ==
  Return([url |-> domain, status |-> "deployed", deploymentMethod |-> RailwayMethod,
          projectId |-> project.id, serviceId |-> service.id])

\* a catch block that falls back to a second way of deploying
deployCatch_nextStrategy(error) ==
  Return([url |-> [domain |-> "fallback-domain"], status |-> "deployed",
          deploymentMethod |-> "github-actions",
          projectId |-> "fallback-project", serviceId |-> "fallback-service"])

\* the catch block of deployToRailwayFromRepo: log and rethrow
deployCatch(error) == Throw(error)

(***************************************************************************)
(* The phase functions.  Each takes the outcome of its collaborator call   *)
(* as an input and yields Return(value) or Throw(message).                 *)
(***************************************************************************)
scrapeHealthcareWebsite(url, fetchOk) ==
  IF ~url.parses
  THEN Throw("Invalid URL")
  ELSE LET domain == url.hostname
       IN Return([company |-> extractCompanyFromDomain(domain),
                  practiceId |-> generatePracticeId(domain),
                  email |-> <<"i","n","f","o","@">> \o domain,
                  leadSource |-> IF fetchOk THEN "clinic-team-version"
                                 ELSE "fallback-extraction",
                  leadScore |-> IF fetchOk THEN 80 ELSE 60])

\* storeLeadInNotion recording a local fallback page instead of throwing
storeLeadInNotion_fallback(leadData, url, postOk) ==
  Return([id |-> IF postOk THEN "notion-page" ELSE "fallback-page",
          company |-> leadData.company, email |-> leadData.email, url |-> url.href])

storeLeadInNotion(leadData, url, postOk) ==
  IF postOk
  THEN Return([id |-> "notion-page", company |-> leadData.company,
               email |-> leadData.email, url |-> url.href])
  ELSE Throw("Notion storage failed")

\* createElevenLabsAgent with a catch block that rethrows
createElevenLabsAgent_rethrows(practiceData, tryThrows) ==
  IF tryThrows
  THEN Throw("Voice agent creation failed")
  ELSE Return([prefix |-> "agent", ts |-> now, practiceId |-> practiceData.practiceId])

\* createElevenLabsAgent that always answers with the master agent
createElevenLabsAgent_alwaysMaster(practiceData, tryThrows) ==
  Return(masterAgentId)

\* createElevenLabsAgent with a catch block that returns nothing
createElevenLabsAgent_nullOnFailure(practiceData, tryThrows) ==
  IF tryThrows
  THEN Return(Null)
  ELSE Return([prefix |-> "agent", ts |-> now, practiceId |-> practiceData.practiceId])

createElevenLabsAgent(practiceData, tryThrows) ==
  IF tryThrows
  THEN Return(masterAgentId)
  ELSE Return([prefix |-> "agent", ts |-> now, practiceId |-> practiceData.practiceId])

createPersonalizedRepository(practiceData, agentId, githubOk) ==
  IF githubOk
  THEN Return([name |-> [practiceId |-> practiceData.practiceId, suffix |-> "demo", ts |-> now]])
  ELSE Throw("Repository creation failed")

\* updateNotionWithResults with a catch block that rethrows
updateNotionWithResults_rethrows(notionPageId, demoUrl, agentId, patchOk) ==
  IF patchOk THEN Return([patched |-> TRUE]) ELSE Throw("Notion update failed")

updateNotionWithResults(notionPageId, demoUrl, agentId, patchOk) ==
  Return([patched |-> patchOk])

(***************************************************************************)
(* processHealthcareWebsite.                                               *)
(***************************************************************************)
\* a catch block that rethrows to the caller
processCatch_rethrows(frame, error) ==
  [frame EXCEPT !.pc = "thrown"]

\* a catch block that grades the failure by the phases already completed
processCatch_partial(frame, error) ==
  [frame EXCEPT !.pc = "done",
                !.report = [leadId |-> frame.leadId, url |-> frame.url,
                            status |-> IF frame.scrapedData # Null
                                       THEN "partial-success" ELSE "failed",
                            error |-> error]]

\* a catch block that reports a fixed message instead of the error caught
processCatch_genericError(frame, error) ==
  [frame EXCEPT !.pc = "done",
                !.report = [leadId |-> frame.leadId, url |-> frame.url,
                            status |-> "failed", error |-> "Pipeline failed"]]

\* the catch block: the failure report
processCatch(frame, error) ==
  [frame EXCEPT !.pc = "done",
              !.report = [leadId |-> frame.leadId, url |-> frame.url,
                          status |-> "failed", error |-> error]]

\* the return statement that ends the try block
processReturn(frame) ==
  [frame EXCEPT !.pc = "done",
              !.report = [leadId |-> frame.leadId, url |-> frame.url,
                          status |-> "success",
                          company |-> frame.scrapedData.company,
                          demoUrl |-> frame.deployment.url,
                          agentId |-> frame.agentId,
                          notionId |-> frame.notionPage.id,
                          repositoryUrl |-> frame.repository.name,
                          deploymentMethod |-> RailwayMethod]]

\* the call of phase `phase` is made
Enter(frame, phase) ==
  [frame EXCEPT !.pc = phase, !.started = Append(@, phase),
                !.awaiting = IF phase = "deploy" THEN DeploySteps[1] ELSE "none"]

\* a pipeline that notes the failure of a phase and goes on to the next one
Settle_continues(frame, phase, res, collab, collabFailed) ==
  LET noted == [frame EXCEPT !.failed = IF collabFailed THEN @ \cup {collab} ELSE @,
                             !.awaiting = "none"]
      got == IF res.threw THEN noted ELSE [noted EXCEPT ![ResultField(phase)] = res.value]
  IN IF NextPhase(phase) = "return"
     THEN IF res.threw THEN processCatch(noted, res.error) ELSE processReturn(got)
     ELSE Enter(got, NextPhase(phase))

\* the awaited call of phase `phase` has settled with outcome res; collabFailed
\* tells whether the remote call of the phase failed
Settle(frame, phase, res, collab, collabFailed) ==
  LET noted == [frame EXCEPT !.failed = IF collabFailed THEN @ \cup {collab} ELSE @,
                             !.awaiting = "none"]
  IN IF res.threw
     THEN processCatch(noted, res.error)
     ELSE LET got == [noted EXCEPT ![ResultField(phase)] = res.value]
          IN IF NextPhase(phase) = "return"
             THEN processReturn(got)
             ELSE Enter(got, NextPhase(phase))

\* processHealthcareWebsite(url) is entered
Start(url) ==
  /\ Len(history) < MaxRuns
  /\ run' = Enter([IdleRun EXCEPT !.url = url,
                                  !.leadId = [prefix |-> "lead", ts |-> now]],
                  "scrape")
  /\ history' = Append(history, [leadId |-> [prefix |-> "lead", ts |-> now],
                                 url |-> url, scrapedData |-> Null])
  /\ UNCHANGED <<now, railwayMCPClient, chat, mcp>>

\* no request is being served
Quiet ==
  /\ run.pc \in {"idle", "done"}
  /\ batch.pc \in {"idle", "done"}
  /\ chat.pc \in {"idle", "done"}

\* POST /demo: one call of processHealthcareWebsite(websiteUrl); the requests
\* of the model are served one after the other
Demo(url) ==
  /\ Quiet
  /\ Start(url)
  /\ UNCHANGED <<batch, req>>

Scrape(fetchOk) ==
  /\ run.pc = "scrape"
  /\ \E res \in {scrapeHealthcareWebsite(run.url, fetchOk)} :
       /\ run' = Settle(run, "scrape", res, "scraper", ~fetchOk \/ res.threw)
       /\ history' = [history EXCEPT ![Len(history)].scrapedData = res.value]
  /\ UNCHANGED <<now, railwayMCPClient, batch, chat, req, mcp>>

Notion(postOk) ==
  /\ run.pc = "notion"
  /\ run' = Settle(run, "notion", storeLeadInNotion(run.scrapedData, run.url, postOk),
                   "notion-store", ~postOk)
  /\ UNCHANGED <<now, history, railwayMCPClient, batch, chat, req, mcp>>

Agent(tryThrows) ==
  /\ run.pc = "agent"
  /\ run' = Settle(run, "agent", createElevenLabsAgent(run.scrapedData, tryThrows),
                   "agent", tryThrows)
  /\ UNCHANGED <<now, history, railwayMCPClient, batch, chat, req, mcp>>

Repo(githubOk) ==
  /\ run.pc = "repo"
  /\ run' = Settle(run, "repo",
                   createPersonalizedRepository(run.scrapedData, run.agentId, githubOk),
                   "github", ~githubOk)
  /\ UNCHANGED <<now, history, railwayMCPClient, batch, chat, req, mcp>>

\* a helper awaited by deployToRailwayFromRepo has returned res
AfterHelper(frame, field, res, next) ==
  [frame EXCEPT ![field] = res.value, !.awaiting = next,
                !.failed = IF res.failed THEN @ \cup {"railway"} ELSE @]

\* a connect can fail only while no client is cached
Possible(outcome) == outcome = "connect-fail" => railwayMCPClient = Null

RailwayProject(outcome) ==
  /\ run.pc = "deploy" /\ run.awaiting = "project"
  /\ Possible(outcome)
  /\ \E res \in {railwayMCPCreateProject(railwayMCPClient, outcome)} :
       /\ run' = AfterHelper(run, "project", res, "environments")
       /\ railwayMCPClient' = res.client
  /\ UNCHANGED <<now, history, batch, chat, req, mcp>>

RailwayEnvironments(outcome) ==
  /\ run.pc = "deploy" /\ run.awaiting = "environments"
  /\ Possible(outcome)
  /\ \E res \in {railwayMCPGetEnvironments(railwayMCPClient, outcome)} :
       /\ run' = AfterHelper(run, "prodEnv", res, "service")
       /\ railwayMCPClient' = res.client
  /\ UNCHANGED <<now, history, batch, chat, req, mcp>>

RailwayService(outcome) ==
  /\ run.pc = "deploy" /\ run.awaiting = "service"
  /\ Possible(outcome)
  /\ \E res \in {railwayMCPCreateService(railwayMCPClient, outcome)} :
       /\ run' = AfterHelper(run, "service", res, "variables")
       /\ railwayMCPClient' = res.client
  /\ UNCHANGED <<now, history, batch, chat, req, mcp>>

RailwayVariables(outcome) ==
  /\ run.pc = "deploy" /\ run.awaiting = "variables"
  /\ Possible(outcome)
  /\ \E res \in {railwayMCPSetVariables(railwayMCPClient, outcome)} :
       /\ run' = IF res.threw
                 THEN Settle(run, "deploy", deployCatch("Railway MCP connect failed"),
                             "railway", TRUE)
                 ELSE [run EXCEPT !.awaiting = "domain",
                                  !.failed = IF res.failed THEN @ \cup {"railway"} ELSE @]
       /\ railwayMCPClient' = res.client
  /\ UNCHANGED <<now, history, batch, chat, req, mcp>>

RailwayDomain(outcome) ==
  /\ run.pc = "deploy" /\ run.awaiting = "domain"
  /\ Possible(outcome)
  /\ \E res \in {railwayMCPCreateDomain(railwayMCPClient, run.service.id, outcome)} :
       /\ run' = Settle(run, "deploy",
                        deployToRailwayFromRepo(run.project, run.service, res.value),
                        "railway", res.failed)
       /\ railwayMCPClient' = res.client
  /\ UNCHANGED <<now, history, batch, chat, req, mcp>>

Update(patchOk) ==
  /\ run.pc = "update"
  /\ run' = Settle(run, "update",
                   updateNotionWithResults(run.notionPage.id, run.deployment.url,
                                           run.agentId, patchOk),
                   "notion-update", ~patchOk)
  /\ UNCHANGED <<now, history, railwayMCPClient, batch, chat, req, mcp>>

\* the clock read by Date.now() advances
Tick ==
  /\ now < MaxClock
  /\ now' = now + 1
  /\ UNCHANGED <<run, history, railwayMCPClient, batch, chat, req, mcp>>

(***************************************************************************)
(* The batch loops: POST /process-urls (for ... of urls) and                *)
(* executeAutonomousWorkflow (for i over the practices EXA found).         *)
(***************************************************************************)
\* the lists a batch may be given: every list of Targets the bound on calls
\* leaves room for
UrlLists(n) == UNION { [1..k -> Targets] : k \in 0..n }

\* POST /process-urls with body {urls}; the frame of the request served before
\* is gone
ProcessUrls(urls) ==
  /\ Quiet
  /\ Len(history) + Len(urls) <= MaxRuns
  /\ batch' = [IdleBatch EXCEPT !.kind = "process-urls", !.urls = urls,
                                !.base = Len(history),
                                !.pc = IF urls = <<>> THEN "done" ELSE "call",
                                !.response = IF urls = <<>> THEN "results" ELSE "none"]
  /\ run' = IdleRun
  /\ chat' = IdleChat
  /\ UNCHANGED <<now, history, railwayMCPClient, req, mcp>>

\* executeAutonomousWorkflow once findHealthcarePracticesWithEXA has returned
\* the practices (an empty list makes it throw before the loop)
ExecuteAutonomousWorkflow(urls) ==
  /\ Quiet
  /\ urls # <<>>
  /\ Len(history) + Len(urls) <= MaxRuns
  /\ batch' = [IdleBatch EXCEPT !.kind = "workflow", !.urls = urls,
                                !.base = Len(history), !.pc = "call"]
  /\ run' = IdleRun
  /\ chat' = IdleChat
  /\ UNCHANGED <<now, history, railwayMCPClient, req, mcp>>

\* a loop that starts the next call without awaiting the one in flight
CallReady_noAwait(b) ==
  b.pc \in {"call", "await"} /\ b.launched < Len(b.urls)

\* the loop is at its call of processHealthcareWebsite: the call before it has
\* been awaited
CallReady(b) == b.pc = "call"

BatchCall ==
  /\ CallReady(batch)
  /\ Start(batch.urls[batch.i + 1])
  /\ batch' = [batch EXCEPT !.pc = "await", !.launched = @ + 1]
  /\ UNCHANGED req

\* results.push that keeps only the reports of successful calls
CollectResult_successOnly(results, report) ==
  IF report.status = "success" THEN Append(results, report) ELSE results

\* results = [result] in place of results.push(result)
CollectResult_overwrite(results, report) == <<report>>

\* results.push(result)
CollectResult(results, report) == Append(results, report)

\* a loop that ends at the first failed report
AfterCollect_abortOnFailure(b, report) ==
  IF b.i + 1 < Len(b.urls) /\ report.status # "failed"
  THEN IF b.kind = "workflow"
       THEN [b EXCEPT !.pc = "sleep"]
       ELSE [b EXCEPT !.pc = "call", !.i = @ + 1]
  ELSE [b EXCEPT !.pc = "done", !.response = "results"]

\* a loop that sleeps only after a successful report
AfterCollect_sleepOnSuccessOnly(b, report) ==
  IF b.i + 1 < Len(b.urls)
  THEN IF b.kind = "workflow" /\ report.status = "success"
       THEN [b EXCEPT !.pc = "sleep"]
       ELSE [b EXCEPT !.pc = "call", !.i = @ + 1]
  ELSE [b EXCEPT !.pc = "done", !.response = "results"]

\* the rest of the loop body after the push: executeAutonomousWorkflow sleeps
\* when a practice is left (i < length - 1), POST /process-urls goes straight
\* to the next url; after the last one the results are returned
AfterCollect(b, report) ==
  IF b.i + 1 < Len(b.urls)
  THEN IF b.kind = "workflow"
       THEN [b EXCEPT !.pc = "sleep"]
       ELSE [b EXCEPT !.pc = "call", !.i = @ + 1]
  ELSE [b EXCEPT !.pc = "done", !.response = "results"]

\* the catch blocks around the call: executeAutonomousWorkflow pushes a failure
\* record and goes on without sleeping, POST /process-urls answers 500
AfterThrow(b, url) ==
  IF b.kind = "workflow"
  THEN LET pushed == [b EXCEPT !.results = Append(@, [url |-> url, status |-> "failed",
                                                     error |-> "thrown"])]
       IN IF b.i + 1 < Len(b.urls)
          THEN [pushed EXCEPT !.pc = "call", !.i = @ + 1]
          ELSE [pushed EXCEPT !.pc = "done", !.response = "results"]
  ELSE [b EXCEPT !.pc = "done", !.response = "error-500"]

\* the awaited call of processHealthcareWebsite has settled
BatchCollect ==
  /\ batch.pc = "await"
  /\ run.pc \in {"done", "thrown"}
  /\ batch' = IF run.pc = "done"
              THEN AfterCollect([batch EXCEPT !.returned = @ + 1,
                                              !.results = CollectResult(@, run.report)],
                                run.report)
              ELSE AfterThrow([batch EXCEPT !.returned = @ + 1], run.url)
  /\ UNCHANGED <<now, run, history, railwayMCPClient, chat, req, mcp>>

\* the timer of this.sleep(3000) fires: time has passed
BatchWake ==
  /\ batch.pc = "sleep"
  /\ now < MaxClock
  /\ now' = now + 1
  /\ batch' = [batch EXCEPT !.pc = "call", !.i = @ + 1, !.slept = @ + 1]
  /\ UNCHANGED <<run, history, railwayMCPClient, chat, req, mcp>>

(***************************************************************************)
(* The chat transport: sendTelegramMessage.                                *)
(***************************************************************************)
\* handleTelegramUpdate for /start, /status or /help: one call of
\* sendTelegramMessage(chatId, text); the frames of the request served before
\* are gone
TelegramCommand ==
  /\ Quiet
  /\ chat' = [IdleChat EXCEPT !.pc = "posting"]
  /\ run' = IdleRun
  /\ batch' = IdleBatch
  /\ UNCHANGED <<now, history, railwayMCPClient, req, mcp>>

\* a catch block that posts the message again
sendTelegramMessage_retries(c, postOk) ==
  IF postOk
  THEN [c EXCEPT !.pc = "done", !.attempts = @ + 1]
  ELSE [c EXCEPT !.pc = "posting", !.attempts = @ + 1, !.logged = TRUE]

\* the try block (one axios.post) and the catch block (console.error) of
\* sendTelegramMessage, once the post has settled
sendTelegramMessage(c, postOk) ==
  IF postOk
  THEN [c EXCEPT !.pc = "done", !.attempts = @ + 1]
  ELSE [c EXCEPT !.pc = "done", !.attempts = @ + 1, !.logged = TRUE]

\* the awaited axios.post to the Telegram API settles
TelegramPost(postOk) ==
  /\ chat.pc = "posting"
  /\ chat' = sendTelegramMessage(chat, postOk)
  /\ UNCHANGED <<now, run, history, railwayMCPClient, batch, req, mcp>>

(***************************************************************************)
(* The request handlers: the Express routes and handleTelegramUpdate.      *)
(* A value of a request body is a tagged JavaScript value.                 *)
(***************************************************************************)
\* a field the body does not have
Undefined == [type |-> "undefined", value |-> <<>>]
\* the string ''
EmptyString == [type |-> "string", value |-> <<>>]
\* a string that holds the URL u
Str(u) == [type |-> "string", value |-> <<u>>]
\* an array of URL strings
Arr(us) == [type |-> "array", value |-> us]

\* a negation that lets undefined through: only '' counts as missing
Falsy_emptyStringOnly(v) == v = EmptyString

\* !v
Falsy(v) == v.type = "undefined" \/ v = EmptyString

\* Array.isArray(v)
IsArray(v) == v.type = "array"

\* the value as processHealthcareWebsite takes it: new URL(url) parses a URL
\* string and throws for anything else
AsUrl(v) ==
  IF v.type = "string" /\ v.value # <<>>
  THEN v.value[1]
  ELSE [href |-> v.type, parses |-> FALSE, hostname |-> <<>>]

\* the bodies POST /demo is sent
DemoBodies == { [websiteUrl |-> v] : v \in {Undefined, EmptyString} \cup { Str(u) : u \in Targets } }

\* the bodies POST /process-urls is sent: no urls, a bare URL string in place
\* of an array, and the arrays the bound on calls leaves room for
ProcessUrlsBodies ==
  { [urls |-> v] : v \in {Undefined, Str(UrlClinic)} \cup { Arr(us) : us \in UrlLists(MaxRuns) } }

\* no handler is running
Served ==
  /\ Quiet
  /\ \/ req.pc \in {"idle", "done"}
     \/ req.route = "process-urls" /\ req.pc = "loop"

\* a handler is entered
Admit(route, body) == [IdleReq EXCEPT !.route = route, !.body = body, !.base = Len(history)]

\* POST /demo up to its first await: the 400 answer, or the call of
\* processHealthcareWebsite(websiteUrl)
DemoRequest(body) ==
  /\ Served
  /\ batch' = IdleBatch
  /\ IF Falsy(body.websiteUrl)
     THEN /\ req' = [Admit("demo", body) EXCEPT !.pc = "done", !.response = "error-400"]
          /\ run' = IdleRun
          /\ UNCHANGED <<now, history, railwayMCPClient, chat, mcp>>
     ELSE /\ Start(AsUrl(body.websiteUrl))
          /\ req' = [Admit("demo", body) EXCEPT !.pc = "await"]

\* POST /demo after its await: res.json, or the 500 of its catch block
DemoRespond ==
  /\ req.route = "demo" /\ req.pc = "await"
  /\ run.pc \in {"done", "thrown"}
  /\ req' = [req EXCEPT !.pc = "done",
                        !.response = IF run.pc = "done" THEN "ok-200" ELSE "error-500"]
  /\ UNCHANGED <<now, run, history, railwayMCPClient, batch, chat, mcp>>

\* POST /process-urls up to its first await: the 400 answer, or the loop over
\* urls, which answers (batch.response) when it ends
ProcessUrlsRequest(body) ==
  /\ Served
  /\ run' = IdleRun
  /\ chat' = IdleChat
  /\ IF Falsy(body.urls) \/ ~IsArray(body.urls)
     THEN /\ req' = [Admit("process-urls", body) EXCEPT !.pc = "done",
                                                        !.response = "error-400"]
          /\ batch' = IdleBatch
     ELSE /\ Len(history) + Len(body.urls.value) <= MaxRuns
          /\ req' = [Admit("process-urls", body) EXCEPT !.pc = "loop"]
          /\ batch' = [IdleBatch EXCEPT
                         !.kind = "process-urls", !.urls = body.urls.value,
                         !.base = Len(history),
                         !.pc = IF body.urls.value = <<>> THEN "done" ELSE "call",
                         !.response = IF body.urls.value = <<>> THEN "results" ELSE "none"]
  /\ UNCHANGED <<now, history, railwayMCPClient, mcp>>

\* a call of sendTelegramMessage(chatId, message) and the wait for it
Send(r, message, next) == [r EXCEPT !.sent = Append(@, message), !.pc = next]

\* what the EXA API answers: ok false for an HTTP error or a failed fetch
ExaAnswers == { [ok |-> FALSE, results |-> <<>>] } \cup
              { [ok |-> TRUE, results |-> us] : us \in UrlLists(MaxRuns) }

\* findHealthcarePracticesWithEXA answering a stock list when the search fails
findHealthcarePracticesWithEXA_stockList(answer) ==
  IF ~answer.ok \/ answer.results = <<>>
  THEN Return(<<UrlClinic>>)
  ELSE Return(answer.results)

findHealthcarePracticesWithEXA(answer) ==
  IF ~answer.ok
  THEN Throw("EXA API error")
  ELSE IF answer.results = <<>>
       THEN Throw("No healthcare practices found by EXA")
       ELSE Return(answer.results)

\* executeAutonomousWorkflow from the settled search to the loop: the error
\* of the search goes on to the caller, an empty list is an error of its own
practicesOrThrow(found) ==
  IF found.threw
  THEN found
  ELSE IF found.value = <<>>
       THEN Throw("No healthcare practices found with EXA search")
       ELSE found

\* the commands and the free texts a Telegram update carries
TextStart == <<"/","s","t","a","r","t">>
TextLeads == <<"/","l","e","a","d","s">>
TextUpperLeads == <<"L","E","A","D","S">>
TextDemo == <<"a"," ","D","e","m","o">>
TextCreate == <<"c","r","e","a","t","e">>
TextGenerate == <<"g","e","n","e","r","a","t","e">>
TextHello == <<"h","i">>
Texts == {TextStart, TextLeads, TextUpperLeads, TextDemo, TextCreate, TextGenerate, TextHello}

\* the contents OpenRouter answers
AiHello == <<"H","i","!">>
AiGenerateLeads == <<"G","e","n","e","r","a","t","e"," ","l","e","a","d","s">>
AiResponses == {AiHello, AiGenerateLeads}

\* s.includes(sub)
Includes(s, sub) ==
  \E i \in 1..(Len(s) - Len(sub) + 1) : SubSeq(s, i, i + Len(sub) - 1) = sub

\* handleTelegramUpdate up to its first await
HandleTelegramUpdate(text) ==
  /\ Served
  /\ run' = IdleRun
  /\ batch' = IdleBatch
  /\ IF text = TextStart
     THEN /\ req' = Send(Admit("telegram-start", [text |-> text]), "welcome", "final-send")
          /\ chat' = [IdleChat EXCEPT !.pc = "posting"]
     ELSE IF text = TextLeads
          THEN /\ req' = Send(Admit("telegram-leads", [text |-> text]), "starting", "starting")
               /\ chat' = [IdleChat EXCEPT !.pc = "posting"]
          ELSE /\ req' = [Admit("telegram-chat", [text |-> text]) EXCEPT !.pc = "typing"]
               /\ chat' = IdleChat
  /\ UNCHANGED <<now, history, railwayMCPClient, mcp>>

\* POST /create-leads up to its first await: executeAutonomousWorkflow(count)
\* is called and awaits the search
CreateLeadsRequest ==
  /\ Served
  /\ req' = [Admit("create-leads", Null) EXCEPT !.pc = "search", !.workflows = 1]
  /\ run' = IdleRun
  /\ batch' = IdleBatch
  /\ chat' = IdleChat
  /\ UNCHANGED <<now, history, railwayMCPClient, mcp>>

\* a decision that also starts the workflow on 'generate', 'create' or an
\* answer that says 'generate leads'
wantsWorkflow_anyKeyword(userMessage, aiResponse) ==
  \/ Includes(ToLowerCase(userMessage), <<"g","e","n","e","r","a","t","e">>)
  \/ Includes(ToLowerCase(userMessage), <<"c","r","e","a","t","e">>)
  \/ Includes(ToLowerCase(userMessage), <<"l","e","a","d">>)
  \/ Includes(ToLowerCase(userMessage), <<"d","e","m","o">>)
  \/ Includes(ToLowerCase(aiResponse), <<"g","e","n","e","r","a","t","e"," ","l","e","a","d","s">>)

\* the condition of the if in handleAIChat: wantsLeads and the second test
wantsWorkflow(userMessage, aiResponse) ==
  /\ \/ Includes(ToLowerCase(userMessage), <<"g","e","n","e","r","a","t","e">>)
     \/ Includes(ToLowerCase(userMessage), <<"c","r","e","a","t","e">>)
     \/ Includes(ToLowerCase(userMessage), <<"l","e","a","d">>)
     \/ Includes(ToLowerCase(userMessage), <<"d","e","m","o">>)
     \/ Includes(ToLowerCase(aiResponse), <<"g","e","n","e","r","a","t","e"," ","l","e","a","d","s">>)
  /\ \/ Includes(ToLowerCase(userMessage), <<"l","e","a","d">>)
     \/ Includes(ToLowerCase(userMessage), <<"d","e","m","o">>)

\* handleAIChat: the post of the typing indicator settles; a failure goes to
\* the outer catch block, which sends the help text
ChatTyping(postOk) ==
  /\ req.pc = "typing"
  /\ IF postOk
     THEN /\ req' = [req EXCEPT !.pc = "ai"]
          /\ UNCHANGED chat
     ELSE /\ req' = Send(req, "fallback", "final-send")
          /\ chat' = [IdleChat EXCEPT !.pc = "posting"]
  /\ UNCHANGED <<now, run, history, railwayMCPClient, batch, mcp>>

\* handleAIChat: the post to OpenRouter settles; callOk is false when it
\* throws or answers without choices[0].message
ChatAI(callOk, content) ==
  /\ req.pc = "ai"
  /\ IF ~callOk
     THEN req' = Send([req EXCEPT !.ai = "failed"], "fallback", "final-send")
     ELSE IF wantsWorkflow(req.body.text, content)
          THEN req' = Send([req EXCEPT !.ai = "ok", !.aiResponse = content],
                           "answer+starting", "starting")
          ELSE req' = Send([req EXCEPT !.ai = "ok", !.aiResponse = content],
                           "answer", "final-send")
  /\ chat' = [IdleChat EXCEPT !.pc = "posting"]
  /\ UNCHANGED <<now, run, history, railwayMCPClient, batch, mcp>>

\* the send of the starting message has returned: the try block calls
\* executeAutonomousWorkflow(3), which awaits the search
WorkflowCall ==
  /\ req.pc = "starting"
  /\ chat.pc = "done"
  /\ req' = [req EXCEPT !.pc = "search", !.workflows = @ + 1]
  /\ UNCHANGED <<now, run, history, railwayMCPClient, batch, chat, mcp>>

\* a catch block that logs the error and tells the chat nothing
WorkflowThrew_silent(r) == [r EXCEPT !.outcome = "threw", !.pc = "done"]

\* the catch block around executeAutonomousWorkflow: the 500 answer of
\* POST /create-leads, the error message of the Telegram handlers
WorkflowThrew(r) ==
  IF r.route = "create-leads"
  THEN [r EXCEPT !.outcome = "threw", !.pc = "done", !.response = "error-500"]
  ELSE Send([r EXCEPT !.outcome = "threw"], "error", "final-send")

\* the code after the awaited executeAutonomousWorkflow: res.json, or the
\* summary message
WorkflowReturned(r) ==
  IF r.route = "create-leads"
  THEN [r EXCEPT !.outcome = "returned", !.pc = "done", !.response = "ok-200"]
  ELSE Send([r EXCEPT !.outcome = "returned"], "summary", "final-send")

\* how the search ended: the request failed, it found nothing, or it found
\* practices
SearchEnd(answer) ==
  IF ~answer.ok THEN "failed" ELSE IF answer.results = <<>> THEN "empty" ELSE "found"

\* the search of executeAutonomousWorkflow settles: the loop starts, or the
\* error reaches the caller's catch block
ExaSearch(answer) ==
  /\ req.pc = "search"
  /\ Len(history) + Len(answer.results) <= MaxRuns
  /\ \E found \in { practicesOrThrow(f) : f \in {findHealthcarePracticesWithEXA(answer)} } :
       IF found.threw
       THEN /\ req' = WorkflowThrew([req EXCEPT !.search = SearchEnd(answer)])
            /\ chat' = IF req.route = "create-leads" THEN chat
                       ELSE [IdleChat EXCEPT !.pc = "posting"]
            /\ UNCHANGED batch
       ELSE /\ req' = [req EXCEPT !.search = SearchEnd(answer), !.pc = "loop"]
            /\ batch' = [IdleBatch EXCEPT !.kind = "workflow", !.urls = found.value,
                                          !.base = Len(history), !.pc = "call"]
            /\ UNCHANGED chat
  /\ UNCHANGED <<now, run, history, railwayMCPClient, mcp>>

\* the awaited executeAutonomousWorkflow has returned its results
WorkflowEnd ==
  /\ req.pc = "loop"
  /\ req.route # "process-urls"
  /\ batch.pc = "done"
  /\ req' = WorkflowReturned(req)
  /\ chat' = IF req.route = "create-leads" THEN chat
             ELSE [IdleChat EXCEPT !.pc = "posting"]
  /\ UNCHANGED <<now, run, history, railwayMCPClient, batch, mcp>>

\* the last send of a Telegram handler has returned: the handler ends
HandlerEnd ==
  /\ req.pc = "final-send"
  /\ chat.pc = "done"
  /\ req' = [req EXCEPT !.pc = "done"]
  /\ UNCHANGED <<now, run, history, railwayMCPClient, batch, chat, mcp>>

(***************************************************************************)
(* initializeRailwayMCP, await by await, for the helpers of workflows that *)
(* run at the same time (two requests in service at once).  mcp.attempts   *)
(* counts the calls that went past the check of this.railwayMCPClient,     *)
(* mcp.connects the clients that were connected and stored.                *)
(***************************************************************************)
\* a helper of workflow w calls initializeRailwayMCP: the cached client is
\* returned, or the call goes on to its awaits (import, connect, listTools)
McpCall(w) ==
  /\ mcp.callers[w].pc \in {"idle", "done", "failed"}
  /\ IF railwayMCPClient # Null
     THEN mcp' = [mcp EXCEPT !.callers[w] = [pc |-> "done", got |-> railwayMCPClient]]
     ELSE /\ mcp.attempts < MaxConnects
          /\ mcp' = [mcp EXCEPT !.callers[w] = [pc |-> "connect", got |-> Null],
                                !.attempts = @ + 1]
  /\ UNCHANGED <<now, run, history, railwayMCPClient, batch, chat, req>>

\* client.connect(transport) of the call of workflow w settles: the call goes
\* on to listTools, or the catch block rethrows
McpConnected(w, connectOk) ==
  /\ mcp.callers[w].pc = "connect"
  /\ mcp' = [mcp EXCEPT !.callers[w].pc = IF connectOk THEN "list" ELSE "failed"]
  /\ UNCHANGED <<now, run, history, railwayMCPClient, batch, chat, req>>

\* client.listTools() of the call of workflow w settles: the new client is
\* stored and returned, or the catch block rethrows
McpListed(w, listOk) ==
  /\ mcp.callers[w].pc = "list"
  /\ IF listOk
     THEN /\ railwayMCPClient' = [connected |-> TRUE, n |-> mcp.connects + 1]
          /\ mcp' = [mcp EXCEPT !.callers[w] = [pc |-> "done",
                                                got |-> [connected |-> TRUE,
                                                         n |-> mcp.connects + 1]],
                                !.connects = @ + 1]
     ELSE /\ mcp' = [mcp EXCEPT !.callers[w] = [pc |-> "failed", got |-> Null]]
          /\ UNCHANGED railwayMCPClient
  /\ UNCHANGED <<now, run, history, batch, chat, req>>

\* the continuation of the call in progress: the awaited call settles
Step ==
  \/ \E fetchOk \in BOOLEAN : Scrape(fetchOk)
  \/ \E postOk \in BOOLEAN : Notion(postOk)
  \/ \E tryThrows \in BOOLEAN : Agent(tryThrows)
  \/ \E githubOk \in BOOLEAN : Repo(githubOk)
  \/ \E outcome \in StepOutcomes : RailwayProject(outcome)
  \/ \E outcome \in StepOutcomes : RailwayEnvironments(outcome)
  \/ \E outcome \in StepOutcomes : RailwayService(outcome)
  \/ \E outcome \in StepOutcomes : RailwayVariables(outcome)
  \/ \E outcome \in StepOutcomes : RailwayDomain(outcome)
  \/ \E patchOk \in BOOLEAN : Update(patchOk)

\* single calls: POST /demo requests served one after the other
Next ==
  \/ \E url \in Targets : Demo(url)
  \/ Step
  \/ Tick

\* batches and chat: POST /process-urls, executeAutonomousWorkflow and the
\* Telegram commands, served one after the other
BatchNext ==
  \/ \E urls \in UrlLists(MaxRuns) : ProcessUrls(urls)
  \/ \E urls \in UrlLists(MaxRuns) : ExecuteAutonomousWorkflow(urls)
  \/ BatchCall
  \/ BatchCollect
  \/ BatchWake
  \/ TelegramCommand
  \/ \E postOk \in BOOLEAN : TelegramPost(postOk)
  \/ Step
  \/ Tick

\* the request handlers, served one after the other
ServeNext ==
  \/ \E body \in DemoBodies : DemoRequest(body)
  \/ DemoRespond
  \/ \E body \in ProcessUrlsBodies : ProcessUrlsRequest(body)
  \/ CreateLeadsRequest
  \/ \E text \in Texts : HandleTelegramUpdate(text)
  \/ \E postOk \in BOOLEAN : ChatTyping(postOk)
  \/ \E callOk \in BOOLEAN, content \in AiResponses : ChatAI(callOk, content)
  \/ WorkflowCall
  \/ \E answer \in ExaAnswers : ExaSearch(answer)
  \/ WorkflowEnd
  \/ HandlerEnd
  \/ BatchCall
  \/ BatchCollect
  \/ BatchWake
  \/ \E postOk \in BOOLEAN : TelegramPost(postOk)
  \/ Step

Spec == Init /\ [][Next]_vars

\* the initializeRailwayMCP calls of workflows running at the same time
McpNext ==
  \/ \E w \in Workflows : McpCall(w)
  \/ \E w \in Workflows, connectOk \in BOOLEAN : McpConnected(w, connectOk)
  \/ \E w \in Workflows, listOk \in BOOLEAN : McpListed(w, listOk)

ServeSpec == Init /\ [][ServeNext]_vars

McpSpec == Init /\ [][McpNext]_vars

BatchSpec == Init /\ [][BatchNext]_vars

\* every awaited collaborator call settles (returns or throws) and the event
\* loop then runs the continuation
FairSpec == Spec /\ WF_vars(Step)

(***************************************************************************)
(* Vocabulary of the properties.                                           *)
(***************************************************************************)
Range(s) == {s[i] : i \in DOMAIN s}
Last(s) == s[Len(s)]
IsPrefix(s, t) == Len(s) <= Len(t) /\ SubSeq(t, 1, Len(s)) = s

\* the four phases of the specification: scrape, voice agent, lead store,
\* repository + deployment
FourPhases == {"scrape", "agent", "notion", "deploy"}

\* the phases that returned to processHealthcareWebsite without throwing
Succeeded == {p \in FourPhases : run[ResultField(p)] # Null}

\* the fields of a report that carry the results of the four phases
PhaseFields == {"company", "agentId", "notionId", "demoUrl"}

\* the report's status in the words of the specification
WorkflowStatus(report) == IF report.status = "success" THEN "complete" ELSE report.status

Done == run.pc = "done"

(***************************************************************************)
(* C1: processHealthcareWebsite never throws to its caller, and every call *)
(* that was started ends by returning a report object.                     *)
(***************************************************************************)
ProcessTargetAlwaysReturns ==
  /\ [](run.pc # "thrown")
  /\ [](run.pc \notin {"idle", "done"}
          => <>(run.pc = "done" /\ run.report # Null
                /\ run.report.status \in {"success", "failed"}))

\* C1 witness: a call whose collaborator threw has returned a report
ReturnedAfterThrow ==
  Done /\ run.report # Null /\ "notion-store" \in run.failed

(***************************************************************************)
(* C2 as stated: whichever phase throws, every phase is still executed and *)
(* the returned report carries a result for each of the four phases.       *)
(***************************************************************************)
EveryPhaseProducesResult ==
  Done => /\ FourPhases \subseteq Range(run.started)
          /\ PhaseFields \subseteq DOMAIN run.report

(***************************************************************************)
(* C2 amended: a report is always returned, but a result for every phase   *)
(* only when no phase throws.  A failed fetch and a failed agent creation  *)
(* are replaced by fallbacks and the later phases run; when the URL does   *)
(* not parse or lead storage, repository creation or deployment throws, no *)
(* later phase runs and the report carries the error instead of results.   *)
(***************************************************************************)
ReportPerPhaseUnlessThrown ==
  Done =>
    /\ run.report # Null
    /\ run.report.status = "success" =>
         /\ run.started = Phases
         /\ PhaseFields \subseteq DOMAIN run.report
    /\ run.report.status = "failed" =>
         /\ Last(run.started) \in {"scrape", "notion", "repo", "deploy"}
         /\ Last(run.started) = "scrape" => ~run.url.parses
         /\ run[ResultField(Last(run.started))] = Null
         /\ PhaseFields \cap DOMAIN run.report = {}
         /\ "error" \in DOMAIN run.report
    /\ run.report.status \in {"success", "failed"}

\* C2 witness: lead storage threw and the call returned without later phases
StoppedAtLeadStore ==
  Done /\ run.report.status = "failed" /\ Last(run.started) = "notion"

StatusGradesSuccessCount ==
  Done => WorkflowStatus(run.report) =
            IF Cardinality(Succeeded) = 4 THEN "complete"
            ELSE IF Cardinality(Succeeded) >= 1 THEN "partial-success"
            ELSE "failed"

(***************************************************************************)
(* C4 amended: the status is 'success' iff all four phases succeeded and   *)
(* 'failed' otherwise, also when some of them succeeded; there is no       *)
(* partial status.                                                         *)
(***************************************************************************)
StatusIsAllOrNothing ==
  Done => /\ run.report.status \in {"success", "failed"}
          /\ run.report.status = "success" <=> Cardinality(Succeeded) = 4

\* C4 witness: some but not all phases succeeded and the report says failed
FailedWithSomeSuccess ==
  Done /\ Cardinality(Succeeded) \in 1..3 /\ run.report.status = "failed"

(***************************************************************************)
(* C5: when every collaborator call of a workflow succeeded, the report    *)
(* has the all-succeeded status and nothing in it is fallback data.        *)
(***************************************************************************)
AllSucceedMeansComplete ==
  (Done /\ run.failed = {}) =>
    /\ WorkflowStatus(run.report) = "complete"
    /\ run.scrapedData.leadSource # "fallback-extraction"
    /\ run.report.agentId # masterAgentId
    /\ run.report.notionId = "notion-page"
    /\ run.deployment.projectId = "mcp-project"
    /\ run.deployment.serviceId = "mcp-service"
    /\ run.report.demoUrl = [domain |-> "mcp-domain"]

\* C5 witness: a workflow whose collaborators all succeeded has returned
ReturnedWithoutFailure ==
  Done /\ run.failed = {} /\ Len(run.started) = Len(Phases)

(***************************************************************************)
(* C6 as stated: when only the lead database fails, the remaining phases   *)
(* run and the report says 'partial-success' with scrape, voice agent and  *)
(* deploy successful.                                                      *)
(***************************************************************************)
LeadStoreFailureIsPartialSuccess ==
  (Done /\ run.failed = {"notion-store"}) =>
    /\ WorkflowStatus(run.report) = "partial-success"
    /\ {"scrape", "agent", "deploy"} \subseteq Succeeded

(***************************************************************************)
(* C6 amended: when only the lead database fails, the workflow stops at    *)
(* the lead store: no later phase runs and the report says 'failed' with   *)
(* the storage error; only the scrape has a result.                        *)
(***************************************************************************)
LeadStoreFailureFailsRun ==
  (Done /\ run.failed = {"notion-store"}) =>
    /\ run.report.status = "failed"
    /\ run.report.error = "Notion storage failed"
    /\ run.started = <<"scrape", "notion">>
    /\ Succeeded = {"scrape"}
    /\ run.repository = Null

\* C6 witness: a workflow in which only the lead store failed has returned
OnlyLeadStoreFailed ==
  Done /\ run.failed = {"notion-store"}

(***************************************************************************)
(* C7: the PracticeRecord of a failed scrape has a non-empty name, and two *)
(* failed scrapes of the same URL give the same name and identifier.       *)
(***************************************************************************)
FallbackScrapes ==
  {i \in DOMAIN history : /\ history[i].scrapedData # Null
                          /\ history[i].scrapedData.leadSource = "fallback-extraction"}

FallbackRecordDeterministic ==
  \A i \in FallbackScrapes, j \in FallbackScrapes :
    /\ Len(history[i].scrapedData.company) > 0
    /\ history[i].url = history[j].url =>
         /\ history[i].scrapedData.company = history[j].scrapedData.company
         /\ history[i].scrapedData.practiceId = history[j].scrapedData.practiceId

\* C7 witness: two scrapes of one URL failed, in calls made at different times
TwoFallbacksOfOneUrl ==
  \E i \in FallbackScrapes, j \in FallbackScrapes :
    /\ i # j
    /\ history[i].url = history[j].url
    /\ history[i].leadId.ts # history[j].leadId.ts

(***************************************************************************)
(* C8 as stated: every PracticeRecord that reaches a later phase is        *)
(* non-null with a non-empty name and a non-empty identifier.              *)
(***************************************************************************)
PracticeRecordNonEmpty ==
  run.pc \in {"notion", "agent", "repo", "deploy", "update"} =>
    /\ run.scrapedData # Null
    /\ Len(run.scrapedData.company) > 0
    /\ Len(run.scrapedData.practiceId) > 0

(***************************************************************************)
(* C9 as stated: no two calls of processHealthcareWebsite are given the    *)
(* same identifier.                                                        *)
(***************************************************************************)
LeadIdsUnique ==
  \A i \in DOMAIN history, j \in DOMAIN history :
    i # j => history[i].leadId # history[j].leadId

(***************************************************************************)
(* C10: a failed voice-agent creation is replaced by the fallback agent    *)
(* identifier and the workflow goes on; every phase after the voice-agent  *)
(* phase has a non-null agent identifier.                                  *)
(***************************************************************************)
AgentIdNeverNull ==
  /\ run.pc \in {"repo", "deploy", "update"} => run.agentId # Null
  /\ (Done /\ run.report.status = "success") => run.report.agentId # Null
  /\ "agent" \in run.failed =>
       /\ run.agentId = masterAgentId
       /\ "agent" \in Range(run.started)
       /\ ~(Done /\ Last(run.started) = "agent")

\* C10 witness: agent creation failed and the repository phase ran with the
\* fallback identifier
RepoRanWithFallbackAgent ==
  "agent" \in run.failed /\ "repo" \in Range(run.started)

\* the deployment strategies a call has attempted: deployToRailwayFromRepo has
\* one, tried when the deploy phase is entered
StrategiesTried ==
  IF "deploy" \in Range(run.started) THEN <<RailwayMethod>> ELSE <<>>

\* the deploy phase has ended by throwing
DeployThrew ==
  Done /\ Last(run.started) = "deploy" /\ run.deployment = Null

(***************************************************************************)
(* C11 as stated: strategies are tried in priority order until one does    *)
(* not throw: when the first strategy has thrown, a second one is tried    *)
(* and the deploy phase has the result and method of the strategy that did *)
(* not throw.                                                              *)
(***************************************************************************)
FirstNonThrowingStrategyWins ==
  DeployThrew =>
    /\ Len(StrategiesTried) >= 2
    /\ run.report.status = "success"
    /\ run.report.deploymentMethod = Last(StrategiesTried)

(***************************************************************************)
(* C11 amended: there is one deployment strategy, Railway MCP from the     *)
(* dedicated repository.  When it does not throw, the deployment's method  *)
(* is its name; when it throws, no other strategy is tried, the deploy     *)
(* phase has no result and the workflow reports 'failed'.                  *)
(***************************************************************************)
SingleDeployStrategy ==
  /\ Len(StrategiesTried) <= 1
  /\ run.deployment # Null => run.deployment.deploymentMethod = RailwayMethod
  /\ (Done /\ run.report.status = "success") =>
       run.report.deploymentMethod = RailwayMethod
  /\ (Done /\ "railway" \in run.failed /\ run.deployment = Null) =>
       /\ run.report.status = "failed"
       /\ "deploymentMethod" \notin DOMAIN run.report

\* C11 witness: the Railway strategy threw and the call returned 'failed'
RailwayStrategyThrew ==
  DeployThrew /\ StrategiesTried = <<RailwayMethod>> /\ run.report.status = "failed"

(***************************************************************************)
(* C12: when every deployment strategy has thrown, the failure is reported *)
(* (status 'failed') with the error of the last strategy tried, and the    *)
(* workflow returns its report instead of raising.                         *)
(***************************************************************************)
ExhaustedStrategiesReported ==
  /\ run.pc # "thrown"
  /\ DeployThrew =>
       /\ run.report # Null
       /\ run.report.status = "failed"
       /\ run.report.error = "Railway MCP connect failed"
       /\ run.repository # Null

\* C12 witness: a call whose only deployment strategy threw has returned
ReturnedAfterDeployThrew ==
  DeployThrew /\ run.report # Null /\ "railway" \in run.failed /\ run.agentId # Null

\* the calls of processHealthcareWebsite a batch has started and not yet got
\* back
InFlight == batch.launched - batch.returned

\* the calls of processHealthcareWebsite that have returned, in all requests
Completed ==
  Len(history) - (IF run.pc \in {"idle", "done"} THEN 0 ELSE 1)

\* the only list the program collects reports in: the results array of the
\* batch loop
ResultsLog == batch.results

(***************************************************************************)
(* C13: while a batch is processed, the number of processHealthcareWebsite *)
(* calls in flight never exceeds the concurrency limit (3 in the           *)
(* specification's case): the loops await each call, so at most one call   *)
(* is in flight, and it is the call of the frame in progress.              *)
(***************************************************************************)
BatchInFlightBounded ==
  /\ InFlight \in 0..1
  /\ InFlight <= 3
  /\ InFlight = 1 <=> batch.pc = "await"
  /\ run.pc \notin {"idle", "done"} => InFlight = 1

\* C13 witness: the second call of a batch is in flight
SecondCallInFlight ==
  batch.launched = 2 /\ InFlight = 1 /\ run.pc = "repo"

(***************************************************************************)
(* C14: a batch returns one outcome per submitted target, in submission    *)
(* order: entry k of the results is the report of the k-th call, made for  *)
(* the k-th url, and a finished batch has as many results as urls.         *)
(***************************************************************************)
BatchResultsInOrder ==
  /\ Len(batch.results) = batch.returned
  /\ \A k \in 1..Len(batch.results) :
       /\ batch.results[k].url = batch.urls[k]
       /\ batch.results[k].leadId = history[batch.base + k].leadId
  /\ batch.pc = "done" =>
       /\ batch.response = "results"
       /\ Len(batch.results) = Len(batch.urls)

\* C14 witness: a batch of two different targets, one failed and one
\* successful, has returned its results
MixedBatchReturned ==
  /\ batch.pc = "done" /\ Len(batch.urls) = 2
  /\ batch.urls[1] # batch.urls[2]
  /\ batch.results[1].status = "failed"
  /\ batch.results[2].status = "success"

(***************************************************************************)
(* C15: a failed target never cancels or skips the others: a batch ends    *)
(* only after every url has been called and has returned, and after a      *)
(* failed report that is not the last the loop goes on.                    *)
(***************************************************************************)
FailureDoesNotCancelSiblings ==
  /\ batch.pc = "done" =>
       /\ batch.launched = Len(batch.urls)
       /\ batch.returned = Len(batch.urls)
       /\ \A k \in 1..Len(batch.urls) :
            history[batch.base + k].url = batch.urls[k]
  /\ (batch.returned > 0 /\ batch.returned < Len(batch.urls)) =>
       batch.pc \in {"call", "await", "sleep"}

\* C15 witness: the first target failed and the second was still processed
SiblingProcessedAfterFailure ==
  /\ batch.pc = "done" /\ Len(batch.results) = 2
  /\ batch.results[1].status = "failed"
  /\ history[batch.base + 2].scrapedData # Null

EveryReportLogged ==
  Quiet => Len(ResultsLog) = Completed

(***************************************************************************)
(* C17 amended: there is no process-wide log.  Every completed call        *)
(* returns one report to its caller; a batch appends each report once to   *)
(* the results array of that batch, and while the batch runs an entry of   *)
(* the array is never modified or removed.                                 *)
(***************************************************************************)
BatchResultsAppendOnly ==
  [][ batch.pc \in {"call", "await", "sleep"} =>
        /\ IsPrefix(batch.results, batch'.results)
        /\ Len(batch'.results) = Len(batch.results) +
             (IF batch.pc = "await" /\ batch'.pc # "await" THEN 1 ELSE 0)
        /\ (batch.pc = "await" /\ batch'.pc # "await") =>
             Last(batch'.results) = run.report ]_vars

\* C17 witness: a second report has been appended after the first
SecondReportAppended ==
  /\ Len(batch.results) = 2
  /\ batch.results[1].leadId = history[batch.base + 1].leadId
  /\ batch.results[2].status = "failed"

(***************************************************************************)
(* C18: sendTelegramMessage never raises to its caller and posts at most   *)
(* once per call: a failure of the post is caught and logged and the call  *)
(* returns without posting again.                                          *)
(***************************************************************************)
ChatSendNeverRaisesNorRetries ==
  /\ ~chat.threw
  /\ chat.attempts <= 1
  /\ chat.pc = "posting" => chat.attempts = 0 /\ ~chat.logged
  /\ chat.pc = "done" => chat.attempts = 1
  /\ chat.logged => chat.pc = "done"

\* C18 witness: a post has failed and the call has returned after logging it
ChatFailureLogged ==
  chat.pc = "done" /\ chat.logged /\ chat.attempts = 1

\* syntactically valid email: one "@", a non-empty local part, and a domain
\* of letters, digits, "-" and "." with a "." inside it
IsValidEmail(s) ==
  /\ Cardinality({i \in 1..Len(s) : s[i] = "@"}) = 1
  /\ LET at == CHOOSE i \in 1..Len(s) : s[i] = "@"
     IN /\ at > 1
        /\ at < Len(s)
        /\ \A i \in (at + 1)..Len(s) :
             IsLowerAlnum(ToLowerChar(s[i])) \/ s[i] \in {".", "-"}
        /\ \E i \in (at + 2)..(Len(s) - 1) : s[i] = "."
        /\ s[at + 1] # "." /\ s[Len(s)] # "."

(***************************************************************************)
(* C19 as stated: the record handed to the lead database never carries a   *)
(* syntactically invalid email: the stored email is valid or empty.        *)
(***************************************************************************)
StoredEmailValidOrEmpty ==
  run.notionPage # Null =>
    \/ run.notionPage.email = <<>>
    \/ IsValidEmail(run.notionPage.email)

(***************************************************************************)
(* C20 as stated: a lead entry exists in the Notion database only for a    *)
(* workflow whose deployment phase has completed successfully.             *)
(***************************************************************************)
NotionEntryOnlyAfterDeploy ==
  run.notionPage # Null => run.deployment # Null


(***************************************************************************)
(* Request handlers.                                                       *)
(***************************************************************************)
\* the request in service carries a body its route rejects: POST /demo
\* without websiteUrl, POST /process-urls whose urls is missing or no array
InvalidBody ==
  \/ req.route = "demo" /\ req.body.websiteUrl.type = "undefined"
  \/ req.route = "process-urls" /\ req.body.urls.type # "array"

\* C21: a POST /process-urls whose urls is missing or not an array, and a
\* POST /demo without websiteUrl, is answered 400 before anything else
\* happens: no call of processHealthcareWebsite is made for it
ValidationPrecedesProcessing ==
  InvalidBody =>
    /\ req.pc = "done"
    /\ req.response = "error-400"
    /\ Len(history) = req.base
    /\ run = IdleRun
    /\ batch = IdleBatch

\* a bare URL string sent as urls has been answered 400 by a process that
\* has served a call before
BareUrlStringRejected ==
  /\ req.route = "process-urls"
  /\ req.body.urls = Str(UrlClinic)
  /\ req.response = "error-400"
  /\ Len(history) > 0

\* C22: when the practice search fails or finds nothing,
\* executeAutonomousWorkflow throws and no target is processed; a target is
\* processed by a workflow only after the search has found a non-empty list
SearchFailureProcessesNothing ==
  /\ req.search \in {"failed", "empty"} =>
        /\ req.outcome = "threw"
        /\ Len(history) = req.base
        /\ run = IdleRun
        /\ batch = IdleBatch
  /\ (req.workflows > 0 /\ Len(history) > req.base) =>
        /\ req.search = "found"
        /\ batch.urls # <<>>

\* POST /create-leads has answered 500 because the search found nothing
EmptySearchAnswered500 ==
  /\ req.route = "create-leads"
  /\ req.search = "empty"
  /\ req.response = "error-500"

\* C23: for the Telegram command /leads the starting message is sent, and its
\* send awaited, before executeAutonomousWorkflow is called; the workflow is
\* called once; after it has ended exactly one more message is sent, the
\* summary if it returned and the error message if it threw
LeadsCommandMessages ==
  req.route = "telegram-leads" =>
    /\ Len(req.sent) \in {1, 2}
    /\ req.sent[1] = "starting"
    /\ req.workflows <= 1
    /\ req.pc = "starting" => req.workflows = 0 /\ batch = IdleBatch
    /\ req.pc = "search" => chat.pc = "done" /\ chat.attempts = 1
    /\ Len(req.sent) = 2 <=> req.outcome # "none"
    /\ req.outcome = "returned" => req.sent[2] = "summary"
    /\ req.outcome = "threw" => req.sent[2] = "error"
    /\ req.pc = "done" => req.workflows = 1 /\ req.outcome # "none"

\* a /leads command has ended after its workflow threw
LeadsErrorReported ==
  /\ req.route = "telegram-leads"
  /\ req.pc = "done"
  /\ req.outcome = "threw"
  /\ req.sent = <<"starting", "error">>

(***************************************************************************)
(* The pipeline of one target, again.                                      *)
(***************************************************************************)
\* the phases whose collaborator throws to processHealthcareWebsite, and the
\* message of the error each throws
ThrowingPhases == {"notion", "repo", "deploy"}
ThrownBy(phase) ==
  CASE phase = "notion" -> "Notion storage failed"
    [] phase = "repo" -> "Repository creation failed"
    [] phase = "deploy" -> "Railway MCP connect failed"

\* C24: processHealthcareWebsite is fail-fast.  A phase is entered only when
\* every phase before it has returned a value, so once lead storage,
\* repository creation or deployment throws no later collaborator is called;
\* the report then has status failed, the message of the error thrown and no
\* output of a later phase; the status is always success or failed
FailFastPipeline ==
  /\ IsPrefix(run.started, Phases)
  /\ \A i \in 1..(Len(run.started) - 1) : run[ResultField(run.started[i])] # Null
  /\ \A p \in Range(Phases) \ Range(run.started) : run[ResultField(p)] = Null
  /\ Done => run.report.status \in {"success", "failed"}
  /\ (Done /\ run[ResultField(Last(run.started))] = Null) =>
        /\ run.report.status = "failed"
        /\ Last(run.started) \in ThrowingPhases =>
              run.report.error = ThrownBy(Last(run.started))
        /\ PhaseFields \cap DOMAIN run.report = {}

\* repository creation threw: the call returned failed without a deployment
StoppedAtRepository ==
  /\ Done
  /\ Last(run.started) = "repo"
  /\ run.report.status = "failed"
  /\ run.report.error = "Repository creation failed"
  /\ run.deployment = Null

\* C25: a failure of the final Notion update never changes the outcome: a
\* call whose scrape, lead storage, agent creation, repository creation and
\* deployment completed reports success whether or not the update failed
UpdateFailureKeepsSuccess ==
  (Done /\ "update" \in Range(run.started)) =>
    /\ run.deployment # Null
    /\ run.report.status = "success"
    /\ run.report.demoUrl = run.deployment.url
    /\ "error" \notin DOMAIN run.report

\* the final update failed and the call reported success
SuccessDespiteFailedUpdate ==
  /\ Done
  /\ "notion-update" \in run.failed
  /\ run.updated = [patched |-> FALSE]
  /\ run.report.status = "success"

(***************************************************************************)
(* The Railway deployment, again.                                          *)
(***************************************************************************)
\* C27: deployToRailwayFromRepo throws only at the variable-setting step and
\* only because no MCP client could be initialised there; whatever the
\* project, environment, service, variable and domain tool calls did, a
\* deployment that got past that step is reported deployed with a URL
DeployFailsOnlyAtVariableInit ==
  /\ [][(run.pc = "deploy" /\ run'.pc = "done") =>
          /\ run.awaiting = "variables"
          /\ railwayMCPClient = Null
          /\ railwayMCPClient' = Null
          /\ run'.report.status = "failed"
          /\ run'.report.error = "Railway MCP connect failed"]_vars
  /\ [](run.deployment # Null =>
          /\ run.deployment.status = "deployed"
          /\ run.deployment.url # Null
          /\ "domain" \in DOMAIN run.deployment.url)

\* every helper answered with its local fallback and the deployment is
\* reported deployed
DeployedOnFallbacksOnly ==
  /\ run.deployment # Null
  /\ run.deployment.status = "deployed"
  /\ run.deployment.projectId = "fallback-project"
  /\ run.prodEnv.id = "production-env"
  /\ run.deployment.serviceId = "fallback-service"
  /\ run.deployment.url.domain = "fallback-domain"
  /\ railwayMCPClient # Null

(***************************************************************************)
(* The AI chat.                                                            *)
(***************************************************************************)
\* the free texts that contain 'lead' or 'demo' in some letter case
LeadOrDemoTexts == {TextUpperLeads, TextDemo}

\* C28: a free-text message starts the lead-generation workflow exactly when
\* the AI call succeeded and the message contains 'lead' or 'demo' in any
\* letter case; 'generate', 'create' and the content of the AI answer do not
\* matter; when the AI call fails one fallback message is sent and no
\* workflow is started
ChatStartsWorkflowOnLeadOrDemo ==
  req.route = "telegram-chat" =>
    /\ req.workflows <= 1
    /\ req.workflows = 1 => req.ai = "ok" /\ req.body.text \in LeadOrDemoTexts
    /\ (req.ai = "ok" /\ req.body.text \in LeadOrDemoTexts) =>
          /\ req.sent[1] = "answer+starting"
          /\ req.pc = "starting" \/ req.workflows = 1
    /\ (req.ai = "ok" /\ req.body.text \notin LeadOrDemoTexts) =>
          /\ req.sent = <<"answer">>
          /\ req.workflows = 0
    /\ req.ai = "failed" =>
          /\ req.sent = <<"fallback">>
          /\ req.workflows = 0
          /\ batch = IdleBatch

\* 'generate' answered with 'Generate leads': the answer was passed on and
\* no workflow was started
GenerateAloneStartsNothing ==
  /\ req.route = "telegram-chat"
  /\ req.body.text = TextGenerate
  /\ req.aiResponse = AiGenerateLeads
  /\ req.pc = "done"
  /\ req.sent = <<"answer">>
  /\ req.workflows = 0

(***************************************************************************)
(* The Railway MCP client.                                                 *)
(***************************************************************************)
\* C26: the Railway MCP client is connected at most once per process, also
\* when workflows call initializeRailwayMCP at the same time while the client
\* is unset: every call that returned got the one stored client, and after
\* failed initialisations only the client stays unset
SingleMcpConnection ==
  /\ mcp.connects <= 1
  /\ \A w \in Workflows :
        mcp.callers[w].pc = "done" => mcp.callers[w].got = railwayMCPClient
  /\ mcp.connects = 0 => railwayMCPClient = Null

====
